---- MODULE Spec2Model ----
(***************************************************************************)
(* State-machine model of the request handlers of employees/views.py: the *)
(* relational store (Account, Personal Details, Job Details, Performance), *)
(* the browser session, the flash-message storage and the last response.   *)
(* Every handler is one atomic action: a request is handled to completion  *)
(* before the next one starts.                                             *)
(***************************************************************************)
EXTENDS Integers, Sequences, FiniteSets, TLC

(* ------------------------------- bounds -------------------------------- *)
\* Largest primary key any table hands out (auto-increment, never reused).
MaxId == 3
\* Largest number of flash messages kept in the storage of the session.
MaxMsgs == 1

Ids == 1..MaxId

(* ------------------------------- values -------------------------------- *)
\* Optional column values: None is NULL, Some(v) a stored value.
None == <<>>
Some(v) == <<v>>

\* Text columns that are searched are sequences of characters.
EmptyStr == <<>>
Str_Al == <<"A", "l">>
Str_Lee == <<"L", "e", "e">>
Str_Bo == <<"B", "o">>
Str_Ray == <<"R", "a", "y">>
Str_HR == <<"H", "R">>
Str_IT == <<"I", "T">>

Usernames == {"ann", "bob", "cat"}
Emails == {"a@x.org", "b@x.org", "c@x.org"}
Passwords == {"pw1", "pw2"}

\* Search queries typed into the list page ('' is no search).
Queries == {EmptyStr, <<"h">>, <<"l">>, <<"E", "E">>, <<"z">>}

(* ------------------------------ variables ------------------------------ *)
VARIABLES
    auth_user,          \* Account rows:          id -> row
    personal_details,   \* Personal Details rows: id -> row
    job_details,        \* Job Details rows:      id -> row
    performance,        \* Performance rows:      id -> row
    next_id,            \* next primary key of each table
    session,            \* the browser's session: user id and auth hash
    messages,           \* flash messages waiting in the session
    response,           \* the response to the last request
    deleted             \* history: the ids and username of each deleted employee

store == <<auth_user, personal_details, job_details, performance, next_id>>
vars == <<auth_user, personal_details, job_details, performance, next_id,
          session, messages, response, deleted>>

(* ------------------------- platform operations ------------------------- *)
\* str.lower() on one character, as the case-insensitive lookups apply it.
LowerChar(c) ==
    LET low == [A |-> "a", B |-> "b", C |-> "c", D |-> "d", E |-> "e",
                F |-> "f", G |-> "g", H |-> "h", I |-> "i", J |-> "j",
                K |-> "k", L |-> "l", M |-> "m", N |-> "n", O |-> "o",
                P |-> "p", Q |-> "q", R |-> "r", S |-> "s", T |-> "t",
                U |-> "u", V |-> "v", W |-> "w", X |-> "x", Y |-> "y",
                Z |-> "z"]
    IN  IF c \in DOMAIN low THEN low[c] ELSE c

ToLower(s) == [i \in 1..Len(s) |-> LowerChar(s[i])]

\* field__icontains=needle: needle occurs in the column, ignoring case.
IContains(hay, needle) ==
    LET h == ToLower(hay)
        n == ToLower(needle)
    IN  \E i \in 0..(Len(h) - Len(n)) : SubSeq(h, i + 1, i + Len(n)) = n

\* make_password: the stored value is a hash of the password, never the password.
make_password(raw) == <<"pbkdf2_sha256", raw>>

check_password(raw, encoded) == encoded = make_password(raw)

\* The hash a session carries of its user's password (get_session_auth_hash).
SessionAuthHash(encoded) == <<"hmac", encoded>>

NoSession == [user_id |-> 0, hash |-> None]

\* authenticate(username=, password=) against a table of Account rows:
\* the id of the matching account, 0 for None.
AuthenticateIn(users, username, raw) ==
    LET hit == {u \in DOMAIN users :
                    /\ users[u].username = username
                    /\ check_password(raw, users[u].password)}
    IN  IF hit = {} THEN 0 ELSE CHOOSE u \in hit : TRUE

authenticate(username, raw) == AuthenticateIn(auth_user, username, raw)

\* request.user: the session's account while the account exists and the
\* session's hash still matches its password; 0 is the anonymous user.
RequestUser ==
    IF /\ session.user_id \in DOMAIN auth_user
       /\ session.hash = SessionAuthHash(auth_user[session.user_id].password)
    THEN session.user_id
    ELSE 0

Insert(table, id, row) == [i \in DOMAIN table \cup {id} |->
                              IF i = id THEN row ELSE table[i]]

Remove(table, ids) == [i \in DOMAIN table \ ids |-> table[i]]

(* ------------------------------ responses ------------------------------ *)
Msg(level, text) == [level |-> level, text |-> text]

Resp(handler, kind, target, context) ==
    [handler |-> handler, kind |-> kind, target |-> target, context |-> context]

\* redirect(name)
Redirect(handler, name) == Resp(handler, "redirect", name, {})

\* render(request, template, context)
Render(handler, template, context) == Resp(handler, "render", template, context)

\* get_object_or_404 raising Http404
NotFound(handler) == Resp(handler, "not_found", "404", {})

\* an exception escaping the handler
ServerError(handler) == Resp(handler, "server_error", "500", {})

(* ------------------------ models, forms, helpers ----------------------- *)
\* JobDetails.role choices; "ADM" is the administrator.
RoleChoices == {"ADM", "MGR", "EMP"}

\* Roles the manager_required guard lets through.
ManagerRoles == {"ADM", "MGR"}

\* JobDetails.DEPARTMENT_CHOICES (stored codes).
DepartmentChoices == {Str_HR, Str_IT}

\* Performance.objects.create(): every field empty.
EmptyPerformance == [review_date |-> None, rating |-> None, comments |-> EmptyStr]

\* JobDetails.objects.create(performance=...): every other field empty.
EmptyJobDetails(perf_id) ==
    [role |-> "", department |-> EmptyStr, performance |-> perf_id]

PersonalByUsername(u) ==
    {p \in DOMAIN personal_details : personal_details[p].username = u}

\* get_personal_details_by_username: the row's id, 0 when there is none.
get_personal_details_by_username(u) ==
    IF PersonalByUsername(u) = {} THEN 0
    ELSE CHOOSE p \in PersonalByUsername(u) : TRUE

\* get_job_details_by_username: the Job Details the Personal Details links.
get_job_details_by_username(u) ==
    LET p == get_personal_details_by_username(u)
    IN  IF p # 0 /\ personal_details[p].job_details \in DOMAIN job_details
        THEN personal_details[p].job_details
        ELSE 0

\* get_performance_by_username: the Performance the Job Details links.
get_performance_by_username(u) ==
    LET j == get_job_details_by_username(u)
    IN  IF j # 0 /\ job_details[j].performance \in DOMAIN performance
        THEN job_details[j].performance
        ELSE 0

\* The role of account `user`, "" when it has no Job Details.
RoleOf(user) ==
    LET j == get_job_details_by_username(auth_user[user].username)
    IN  IF j = 0 THEN "" ELSE job_details[j].role

\* manager_required: the caller's role grants access to the manager pages.
manager_required(user) == RoleOf(user) \in ManagerRoles

\* RegisterForm.is_valid(): required fields, a free username and e-mail
\* address, and a password typed twice alike.
RegisterFormIsValid(form) ==
    /\ form.username # "" /\ form.email # ""
    /\ \A u \in DOMAIN auth_user :
           /\ auth_user[u].username # form.username
           /\ auth_user[u].email # form.email
    /\ form.password1 # "" /\ form.password1 = form.password2

\* EditProfileForm(instance=pd).is_valid(): required fields and a username
\* no other Personal Details row holds.
EditProfileFormIsValid(form, pd) ==
    /\ form.username # "" /\ form.email # ""
    /\ \A p \in DOMAIN personal_details \ {pd} :
           personal_details[p].username # form.username

\* EditEmployeeForm.is_valid(): role and department are choices of the model.
EditEmployeeFormIsValid(form) ==
    /\ form.role \in RoleChoices
    /\ form.department \in DepartmentChoices

\* PersonalDetails.delete(): the row, its Job Details and that Job Details'
\* Performance go together (cascade).
PersonalDetailsDelete(pd) ==
    LET j == personal_details[pd].job_details
        f == IF j \in DOMAIN job_details THEN {job_details[j].performance} ELSE {}
    IN  /\ personal_details' = Remove(personal_details, {pd})
        /\ job_details' = Remove(job_details, {j})
        /\ performance' = Remove(performance, f)

(* -------------------------------- Init --------------------------------- *)
\* A store as two earlier registrations and an administrator's edits leave
\* it: ann is the administrator, bob a manager.  The two registrations ran
\* side by side, so the Job Details ids are crossed against the others.
SeedUsers ==
    Insert(Insert(<<>>, 1,
        [username |-> "ann", email |-> "a@x.org", password |-> make_password("pw1"),
         first_name |-> Str_Al, last_name |-> Str_Lee]), 2,
        [username |-> "bob", email |-> "b@x.org", password |-> make_password("pw1"),
         first_name |-> Str_Bo, last_name |-> Str_Ray])

SeedPersonal ==
    Insert(Insert(<<>>, 1,
        [first_name |-> Str_Al, last_name |-> Str_Lee, username |-> "ann",
         email |-> "a@x.org", password |-> make_password("pw1"), job_details |-> 2]), 2,
        [first_name |-> Str_Bo, last_name |-> Str_Ray, username |-> "bob",
         email |-> "b@x.org", password |-> make_password("pw1"), job_details |-> 1])

SeedJobs ==
    Insert(Insert(<<>>, 2,
        [role |-> "ADM", department |-> Str_IT, performance |-> 1]), 1,
        [role |-> "MGR", department |-> Str_HR, performance |-> 2])

SeedPerformance == Insert(Insert(<<>>, 1, EmptyPerformance), 2, EmptyPerformance)

InitStore ==
    /\ auth_user = SeedUsers
    /\ personal_details = SeedPersonal
    /\ job_details = SeedJobs
    /\ performance = SeedPerformance
    /\ next_id = [user |-> 3, personal |-> 3, job |-> 3, perf |-> 3]
    /\ messages = <<>>
    /\ response = Resp("none", "none", "none", {})
    /\ deleted = {}

Init == InitStore /\ session = NoSession

(* --------------------------- authorization ----------------------------- *)
\* reverse(): both names the handlers redirect to are the employee list.
ResolveUrl(name) == IF name \in {"list", "main:list"} THEN "/list/" ELSE name

\* login_required failing: redirect to the login page, handler not run.
LoginRequiredDenies(handler) ==
    /\ response' = Redirect(handler, "login")
    /\ UNCHANGED <<store, session, messages, deleted>>

\* manager_required failing: denial, handler not run.
ManagerRequiredDenies(handler) ==
    /\ response' = Resp(handler, "forbidden", "denied", {})
    /\ UNCHANGED <<store, session, messages, deleted>>

\* The login page of the authentication subsystem: authenticate, then login.
login(username, raw) ==
    LET user == authenticate(username, raw)
    IN  /\ IF user # 0
           THEN /\ session' = [user_id |-> user,
                               hash |-> SessionAuthHash(auth_user[user].password)]
                /\ response' = Redirect("login", "home")
           ELSE /\ session' = session
                /\ response' = Render("login", "registration/login.html", {})
        /\ UNCHANGED <<store, messages, deleted>>

(* ---------------------------- user_register ---------------------------- *)
\* form.save(commit=False): the Account row of a valid RegisterForm.
NewUser(form) ==
    [username |-> form.username, email |-> form.email,
     password |-> make_password(form.password1),
     first_name |-> form.first_name, last_name |-> form.last_name]

\* NewPersonalDetails with the e-mail address left out of the mirror.
NewPersonalDetails_NoEmail(user, job_id) ==
    [first_name |-> user.first_name, last_name |-> user.last_name,
     username |-> user.username, email |-> "",
     password |-> user.password, job_details |-> job_id]

\* PersonalDetails.objects.create(...) mirroring the Account.
NewPersonalDetails(user, job_id) ==
    [first_name |-> user.first_name, last_name |-> user.last_name,
     username |-> user.username, email |-> user.email,
     password |-> user.password, job_details |-> job_id]

user_register(method, form) ==
    IF method = "POST"
    THEN /\ Len(messages) < MaxMsgs
         /\ IF RegisterFormIsValid(form)
            THEN LET user == NewUser(form)
                 IN  /\ next_id.user <= MaxId /\ next_id.personal <= MaxId
                     /\ next_id.job <= MaxId /\ next_id.perf <= MaxId
                     /\ auth_user' = Insert(auth_user, next_id.user, user)
                     /\ performance' =
                            Insert(performance, next_id.perf, EmptyPerformance)
                     /\ job_details' =
                            Insert(job_details, next_id.job,
                                   EmptyJobDetails(next_id.perf))
                     /\ personal_details' =
                            Insert(personal_details, next_id.personal,
                                   NewPersonalDetails(user, next_id.job))
                     /\ next_id' = [user |-> next_id.user + 1,
                                    personal |-> next_id.personal + 1,
                                    job |-> next_id.job + 1,
                                    perf |-> next_id.perf + 1]
                     /\ messages' =
                            Append(messages, Msg("success", "Registration successful!"))
                     /\ response' = Redirect("user_register", "/")
                     /\ UNCHANGED <<session, deleted>>
            ELSE /\ messages' =
                        Append(messages,
                               Msg("error", "There was an error with your submission."))
                 /\ response' = Render("user_register", "register/register.html", {})
                 /\ UNCHANGED <<store, session, deleted>>
    ELSE /\ response' = Render("user_register", "register/register.html", {})
         /\ UNCHANGED <<store, session, messages, deleted>>

(* ----------------------------- index, home ----------------------------- *)
index ==
    /\ response' = Render("index", "base.html", {})
    /\ UNCHANGED <<store, session, messages, deleted>>

\* The home page shows the caller's Job Details and first name.
home ==
    LET user == RequestUser
    IN  IF user = 0 THEN LoginRequiredDenies("home")
        ELSE LET username == auth_user[user].username
             IN  IF get_job_details_by_username(username) = 0
                 THEN /\ response' = NotFound("home")
                      /\ UNCHANGED <<store, session, messages, deleted>>
                 ELSE /\ response' =
                             Render("home", "main/home.html",
                                    {<<"job", get_job_details_by_username(username)>>,
                                     <<"first_name",
                                       get_personal_details_by_username(username)>>})
                      /\ UNCHANGED <<store, session, messages, deleted>>

(* --------------------------- get_profile_data -------------------------- *)
\* The rows the profile page shows for the caller; `id` is the path parameter.
ProfileContext(username, id) ==
    {<<"personal_details", get_personal_details_by_username(username)>>,
     <<"job_details", get_job_details_by_username(username)>>,
     <<"performance", get_performance_by_username(username)>>}

get_profile_data(id) ==
    LET user == RequestUser
    IN  IF user = 0 THEN LoginRequiredDenies("get_profile_data")
        ELSE /\ response' = Render("get_profile_data", "main/profile.html",
                                   ProfileContext(auth_user[user].username, id))
             /\ UNCHANGED <<store, session, messages, deleted>>

(* ---------------------------- update_profile --------------------------- *)
\* ProfileInstance looking the row up by the path parameter.
ProfileInstance_ById(username, id) == {p \in DOMAIN personal_details : p = id}

\* get_object_or_404(PersonalDetails, username=user.username): the rows the
\* lookup matches; `id` is the path parameter.
ProfileInstance(username, id) == PersonalByUsername(username)

\* form.save(): the form's fields written to the Personal Details row.
PersonalDetailsAfterEdit(row, form) ==
    [row EXCEPT !.first_name = form.first_name, !.last_name = form.last_name,
                !.username = form.username, !.email = form.email]

\* AccountAfterEdit without the username.
AccountAfterEdit_EmailOnly(row, form) == [row EXCEPT !.email = form.email]

\* user.username = new_username; user.email = new_email
AccountAfterEdit(row, form) ==
    [row EXCEPT !.username = form.username, !.email = form.email]

\* if new_password: user.password = make_password(new_password)
AccountPasswordAfterEdit(row, form) ==
    IF form.new_password # ""
    THEN [row EXCEPT !.password = make_password(form.new_password)]
    ELSE row

\* SessionAfterEdit without the login after the password change.
SessionAfterEdit_NoLogin(users, form) == session

\* authenticate(new credentials) and, when it succeeds, login(request, user).
SessionAfterEdit(users, form) ==
    IF form.new_password # ""
    THEN LET updated_user == AuthenticateIn(users, form.username, form.new_password)
         IN  IF updated_user # 0
             THEN [user_id |-> updated_user,
                   hash |-> SessionAuthHash(users[updated_user].password)]
             ELSE session
    ELSE session

update_profile(method, id, form) ==
    LET user == RequestUser
        h == "update_profile"
    IN  IF user = 0 THEN LoginRequiredDenies(h)
        ELSE LET found == ProfileInstance(auth_user[user].username, id)
             IN  IF found = {}
                 THEN /\ messages' = <<>>
                      /\ response' = NotFound(h)
                      /\ UNCHANGED <<store, session, deleted>>
                 ELSE IF Cardinality(found) > 1
                 THEN /\ messages' = <<>>
                      /\ response' = ServerError(h)
                      /\ UNCHANGED <<store, session, deleted>>
                 ELSE LET pd == CHOOSE p \in found : TRUE
                 IN  IF method = "POST"
                     THEN IF EditProfileFormIsValid(form, pd)
                          THEN LET saved == AccountPasswordAfterEdit(
                                                AccountAfterEdit(auth_user[user], form), form)
                                   users == [auth_user EXCEPT ![user] = saved]
                                   taken == \E u \in DOMAIN auth_user \ {user} :
                                                auth_user[u].username = saved.username
                               IN  /\ personal_details' =
                                          [personal_details EXCEPT
                                              ![pd] = PersonalDetailsAfterEdit(@, form)]
                                   /\ UNCHANGED <<job_details, performance, next_id, deleted>>
                                   /\ IF taken
                                      THEN \* user.save() violates the unique username
                                           /\ auth_user' = auth_user
                                           /\ session' = session
                                           /\ messages' = <<>>
                                           /\ response' = ServerError(h)
                                      ELSE /\ auth_user' = users
                                           /\ session' = SessionAfterEdit(users, form)
                                           /\ messages' =
                                                  <<Msg("success", "Update was successful.")>>
                                           /\ response' =
                                                  Render(h, "main/edit-profile.html", {<<"id", id>>})
                          ELSE /\ messages' =
                                      <<Msg("error",
                                            "There was an error with your submission.")>>
                               /\ response' = Render(h, "main/edit-profile.html", {<<"id", id>>})
                               /\ UNCHANGED <<store, session, deleted>>
                     ELSE /\ messages' = <<>>
                          /\ response' = Render(h, "main/edit-profile.html", {<<"id", id>>})
                          /\ UNCHANGED <<store, session, deleted>>

(* ---------------------------- employees_list --------------------------- *)
\* EmployeesList without the exclusion of the administrators.
EmployeesList_NoExclude(caller_role, search_query) ==
    LET base == {p \in DOMAIN personal_details :
                     personal_details[p].job_details \in DOMAIN job_details}
        job(p) == job_details[personal_details[p].job_details]
    IN  IF search_query # EmptyStr
        THEN {p \in base :
                  \/ IContains(personal_details[p].first_name, search_query)
                  \/ IContains(personal_details[p].last_name, search_query)
                  \/ IContains(job(p).department, search_query)}
        ELSE base

\* EmployeesList with contains in place of icontains.
EmployeesList_CaseSensitive(caller_role, search_query) ==
    LET base == {p \in DOMAIN personal_details :
                     personal_details[p].job_details \in DOMAIN job_details}
        job(p) == job_details[personal_details[p].job_details]
        visible == IF caller_role # "ADM"
                   THEN {p \in base : job(p).role # "ADM"}
                   ELSE base
        Contains(hay, needle) ==
            \E i \in 0..(Len(hay) - Len(needle)) :
                SubSeq(hay, i + 1, i + Len(needle)) = needle
    IN  IF search_query # EmptyStr
        THEN {p \in visible :
                  \/ Contains(personal_details[p].first_name, search_query)
                  \/ Contains(personal_details[p].last_name, search_query)
                  \/ Contains(job(p).department, search_query)}
        ELSE visible

\* The queryset of the list page: Personal Details joined to Job Details,
\* without the administrators unless the caller is one, filtered by the
\* search when there is one.
EmployeesList(caller_role, search_query) ==
    LET base == {p \in DOMAIN personal_details :
                     personal_details[p].job_details \in DOMAIN job_details}
        job(p) == job_details[personal_details[p].job_details]
        visible == IF caller_role # "ADM"
                   THEN {p \in base : job(p).role # "ADM"}
                   ELSE base
    IN  IF search_query # EmptyStr
        THEN {p \in visible :
                  \/ IContains(personal_details[p].first_name, search_query)
                  \/ IContains(personal_details[p].last_name, search_query)
                  \/ IContains(job(p).department, search_query)}
        ELSE visible

ListContext(employees, self_id) ==
    {<<"employee", p>> : p \in employees} \cup {<<"self_id", self_id>>}

employees_list(search_query) ==
    LET user == RequestUser
        h == "employees_list"
    IN  IF user = 0 THEN LoginRequiredDenies(h)
        ELSE IF ~manager_required(user) THEN ManagerRequiredDenies(h)
        ELSE LET self_id == get_job_details_by_username(auth_user[user].username)
             IN  /\ response' =
                        Render(h, "main/list.html",
                               ListContext(EmployeesList(job_details[self_id].role,
                                                         search_query),
                                           self_id))
                 /\ UNCHANGED <<store, session, messages, deleted>>

(* ---------------------------- update_employee -------------------------- *)
\* if job_details.role == 'ADM' and self_job_details.role != 'ADM'
UpdateRefused(target_role, self_role) == target_role = "ADM" /\ self_role # "ADM"

\* form.save(): the form's Job Details fields written to the row.
JobDetailsAfterEdit(row, form) ==
    [row EXCEPT !.role = form.role, !.department = form.department]

\* PerformanceAfterEdit without the rating.
PerformanceAfterEdit_NoRating(row, form) ==
    [row EXCEPT !.review_date = form.review_date, !.comments = form.comments]

\* The manual copy of the review fields onto the Performance row.
PerformanceAfterEdit(row, form) ==
    [row EXCEPT !.review_date = form.review_date, !.rating = form.rating,
                !.comments = form.comments]

\* get_object_or_404(PersonalDetails, job_details__id=emp_id)
PersonalOfEmployee(emp_id) ==
    {p \in DOMAIN personal_details : personal_details[p].job_details = emp_id}

update_employee(method, emp_id, form) ==
    LET user == RequestUser
        h == "update_employee"
    IN  IF user = 0 THEN LoginRequiredDenies(h)
        ELSE IF ~manager_required(user) THEN ManagerRequiredDenies(h)
        ELSE LET self_job == get_job_details_by_username(auth_user[user].username)
                 found == PersonalOfEmployee(emp_id)
             IN  IF found = {} \/ emp_id \notin DOMAIN job_details
                 THEN /\ messages' = <<>>
                      /\ response' = NotFound(h)
                      /\ UNCHANGED <<store, session, deleted>>
                 ELSE IF Cardinality(found) > 1
                 THEN /\ messages' = <<>>
                      /\ response' = ServerError(h)
                      /\ UNCHANGED <<store, session, deleted>>
                 ELSE IF UpdateRefused(job_details[emp_id].role, job_details[self_job].role)
                 THEN /\ messages' =
                             <<Msg("error", "You cannot update an Admin employee.")>>
                      /\ response' = Redirect(h, ResolveUrl("list"))
                      /\ UNCHANGED <<store, session, deleted>>
                 ELSE IF method = "POST"
                 THEN IF EditEmployeeFormIsValid(form)
                      THEN LET perf == job_details[emp_id].performance
                           IN  /\ job_details' =
                                      [job_details EXCEPT
                                          ![emp_id] = JobDetailsAfterEdit(@, form)]
                               /\ performance' =
                                      IF perf \in DOMAIN performance
                                      THEN [performance EXCEPT
                                               ![perf] = PerformanceAfterEdit(@, form)]
                                      ELSE performance
                               /\ messages' =
                                      <<Msg("success", "Profile updated successfully!")>>
                               /\ response' = Redirect(h, ResolveUrl("list"))
                               /\ UNCHANGED <<auth_user, personal_details, next_id,
                                              session, deleted>>
                      ELSE /\ messages' =
                                  <<Msg("error", "There was an error with your submission.")>>
                           /\ response' = Render(h, "main/edit-employee.html", {<<"emp_id", emp_id>>})
                           /\ UNCHANGED <<store, session, deleted>>
                 ELSE /\ messages' = <<>>
                      /\ response' = Render(h, "main/edit-employee.html", {<<"emp_id", emp_id>>})
                      /\ UNCHANGED <<store, session, deleted>>

(* ---------------------------- delete_employee -------------------------- *)
\* DeleteRefused with the caller's comparison turned round.
DeleteRefused_Inverted(target_role, self_role) ==
    target_role = "ADM" /\ self_role = "ADM"

\* if job_details.role == 'ADM' and self_job_details.role != 'ADM'
DeleteRefused(target_role, self_role) == target_role = "ADM" /\ self_role # "ADM"

\* DeleteRows without user.delete().
DeleteRows_KeepAccount(user, pd) ==
    /\ auth_user' = auth_user
    /\ PersonalDetailsDelete(pd)

\* user.delete(); personal_details.delete()
DeleteRows(user, pd) ==
    /\ auth_user' = Remove(auth_user, {user})
    /\ PersonalDetailsDelete(pd)

delete_employee(method, emp_id) ==
    LET user == RequestUser
        h == "delete_employee"
    IN  IF user = 0 THEN LoginRequiredDenies(h)
        ELSE IF ~manager_required(user) THEN ManagerRequiredDenies(h)
        ELSE LET self_job == get_job_details_by_username(auth_user[user].username)
                 found == PersonalOfEmployee(emp_id)
             IN  IF found = {} \/ emp_id \notin DOMAIN job_details
                 THEN /\ messages' = <<>>
                      /\ response' = NotFound(h)
                      /\ UNCHANGED <<store, session, deleted>>
                 ELSE IF Cardinality(found) > 1
                 THEN /\ messages' = <<>>
                      /\ response' = ServerError(h)
                      /\ UNCHANGED <<store, session, deleted>>
                 ELSE IF DeleteRefused(job_details[emp_id].role, job_details[self_job].role)
                 THEN /\ messages' =
                             <<Msg("error", "You cannot delete an Admin employee.")>>
                      /\ response' = Redirect(h, ResolveUrl("main:list"))
                      /\ UNCHANGED <<store, session, deleted>>
                 ELSE LET pd == CHOOSE p \in found : TRUE
                          accounts == {u \in DOMAIN auth_user :
                                          auth_user[u].username =
                                              personal_details[pd].username}
                 IN  IF method = "POST"
                     THEN IF accounts = {}
                          THEN /\ messages' = <<>>
                               /\ response' = NotFound(h)
                               /\ UNCHANGED <<store, session, deleted>>
                          ELSE /\ DeleteRows(CHOOSE u \in accounts : TRUE, pd)
                               /\ deleted' = deleted \cup
                                      {[emp_id |-> emp_id,
                                        username |-> personal_details[pd].username,
                                        account |-> CHOOSE u \in accounts : TRUE,
                                        personal |-> pd,
                                        performance |-> job_details[emp_id].performance]}
                               /\ messages' =
                                      <<Msg("success", "Employee deleted successfully.")>>
                               /\ response' = Redirect(h, ResolveUrl("main:list"))
                               /\ UNCHANGED <<next_id, session>>
                     ELSE /\ messages' = <<>>
                          /\ response' = Render(h, "main/confirm-delete.html", {})
                          /\ UNCHANGED <<store, session, deleted>>

Methods == {"GET", "POST"}

(* ------------------------------- requests ------------------------------ *)
\* The forms and parameters the requests of each specification are drawn from.
Form_Admin ==
    [role |-> "ADM", department |-> Str_IT, review_date |-> Some("2024-05-01"),
     rating |-> Some(5), comments |-> <<"o", "k">>]

Form_Staff ==
    [role |-> "EMP", department |-> Str_HR, review_date |-> None,
     rating |-> Some(3), comments |-> EmptyStr]

Form_BadRole ==
    [role |-> "CEO", department |-> Str_HR, review_date |-> None,
     rating |-> None, comments |-> EmptyStr]

\* Any form: a GET carries none.
NoProfileForm ==
    [first_name |-> EmptyStr, last_name |-> EmptyStr, username |-> "",
     email |-> "", new_password |-> ""]

NoRegisterForm ==
    [first_name |-> EmptyStr, last_name |-> EmptyStr, username |-> "",
     email |-> "", password1 |-> "", password2 |-> ""]

\* Spec: the account life cycle in full, employee edits with one form.
RegisterForms ==
    [first_name : {Str_Al}, last_name : {Str_Ray}, username : {"ann", "bob"},
     email : {"a@x.org", "b@x.org"}, password1 : {"pw2"}, password2 : Passwords]

EditProfileForms ==
    [first_name : {Str_Bo}, last_name : {Str_Ray}, username : {"ann", "bob", ""},
     email : {"b@x.org"}, new_password : Passwords \cup {""}]

\* The id path parameter of the profile pages: ann's row and bob's.
PathIds == {1, 2}

Next ==
    \/ \E u \in {"ann", "bob"}, raw \in Passwords : login(u, raw)
    \/ user_register("GET", NoRegisterForm)
    \/ \E form \in RegisterForms : user_register("POST", form)
    \/ \E id \in PathIds : get_profile_data(id)
    \/ \E id \in PathIds : update_profile("GET", id, NoProfileForm)
    \/ \E id \in PathIds, form \in EditProfileForms : update_profile("POST", id, form)
    \/ employees_list(EmptyStr)
    \/ \E m \in Methods, e \in Ids : update_employee(m, e, Form_Staff)
    \/ \E m \in Methods, e \in Ids : delete_employee(m, e)

Spec == Init /\ [][Next]_vars

\* SpecManage: the manager pages in full, one newcomer, profile edits with
\* one form.
Form_Cat ==
    [first_name |-> Str_Al, last_name |-> Str_Ray, username |-> "cat",
     email |-> "c@x.org", password1 |-> "pw1", password2 |-> "pw1"]

Form_Profile ==
    [first_name |-> Str_Bo, last_name |-> Str_Ray, username |-> "bob",
     email |-> "b@x.org", new_password |-> ""]

EditEmployeeForms == {Form_Admin, Form_Staff, Form_BadRole}

NextManage ==
    \/ \E u \in Usernames : login(u, "pw1")
    \/ index
    \/ home
    \/ user_register("POST", Form_Cat)
    \/ \E m \in Methods : update_profile(m, 1, Form_Profile)
    \/ \E q \in Queries : employees_list(q)
    \/ \E e \in Ids : update_employee("GET", e, Form_Staff)
    \/ \E e \in Ids, form \in EditEmployeeForms : update_employee("POST", e, form)
    \/ \E m \in Methods, e \in Ids : delete_employee(m, e)

SpecManage == Init /\ [][NextManage]_vars

\* SpecOwn: bob, a manager who is no administrator, is logged in, and every
\* request is his own.
InitOwn ==
    /\ InitStore
    /\ session = [user_id |-> 2, hash |-> SessionAuthHash(SeedUsers[2].password)]

NextOwn ==
    \/ \E m \in Methods, id \in Ids : update_profile(m, id, Form_Profile)
    \/ \E q \in Queries : employees_list(q)
    \/ \E m \in Methods, e \in Ids, form \in EditEmployeeForms :
           update_employee(m, e, form)
    \/ \E m \in Methods, e \in Ids : delete_employee(m, e)

SpecOwn == InitOwn /\ [][NextOwn]_vars

(* =============================== claims ================================ *)
UsernameInUse(u) ==
    \/ PersonalByUsername(u) # {}
    \/ \E a \in DOMAIN auth_user : auth_user[a].username = u

ProfileUpdatedMsg == Msg("success", "Update was successful.")

(* ---- C3 ---- *)
C3_Created(form) ==
    LET newU == DOMAIN auth_user' \ DOMAIN auth_user
        newP == DOMAIN personal_details' \ DOMAIN personal_details
        newJ == DOMAIN job_details' \ DOMAIN job_details
        newF == DOMAIN performance' \ DOMAIN performance
    IN  /\ Cardinality(newU) = 1 /\ Cardinality(newP) = 1
        /\ Cardinality(newJ) = 1 /\ Cardinality(newF) = 1
        /\ \A i \in DOMAIN auth_user :
               i \in DOMAIN auth_user' /\ auth_user'[i] = auth_user[i]
        /\ \A i \in DOMAIN personal_details :
               i \in DOMAIN personal_details' /\ personal_details'[i] = personal_details[i]
        /\ \A i \in DOMAIN job_details :
               i \in DOMAIN job_details' /\ job_details'[i] = job_details[i]
        /\ \A i \in DOMAIN performance :
               i \in DOMAIN performance' /\ performance'[i] = performance[i]
        /\ \A u \in newU, p \in newP, j \in newJ, f \in newF :
               /\ auth_user'[u].username = form.username
               /\ auth_user'[u].email = form.email
               /\ personal_details'[p].job_details = j
               /\ job_details'[j].performance = f
               /\ personal_details'[p].username = auth_user'[u].username
               /\ personal_details'[p].email = auth_user'[u].email
               /\ personal_details'[p].first_name = auth_user'[u].first_name
               /\ personal_details'[p].last_name = auth_user'[u].last_name
               /\ job_details'[j].role = ""
               /\ job_details'[j].department = EmptyStr
               /\ performance'[f].review_date = None
               /\ performance'[f].rating = None
               /\ performance'[f].comments = EmptyStr

\* C3: a user_register POST with a valid form adds exactly one Account, one
\* Personal Details, one Job Details and one Performance row; the new
\* Personal Details references the new Job Details, which references the new
\* Performance; its username, e-mail address and name are the Account's; the
\* Job Details and Performance fields are empty; no existing row changes.
C3_RegisterCreatesLinkedRows ==
    [][\A form \in RegisterForms :
          (RegisterFormIsValid(form) /\ user_register("POST", form))
              => C3_Created(form)]_vars

\* A registration has succeeded: the newcomer's rows are in the store.
C3_Witness ==
    /\ response = Redirect("user_register", "/")
    /\ \E u \in DOMAIN auth_user, p \in DOMAIN personal_details :
           /\ u \notin DOMAIN SeedUsers /\ p \notin DOMAIN SeedPersonal
           /\ personal_details[p].username = auth_user[u].username

C10_OnlyOwnRows(user) ==
    /\ job_details' = job_details /\ performance' = performance
    /\ DOMAIN auth_user' = DOMAIN auth_user
    /\ \A u \in DOMAIN auth_user \ {user} : auth_user'[u] = auth_user[u]
    /\ DOMAIN personal_details' = DOMAIN personal_details
    /\ \A p \in DOMAIN personal_details :
           (user = 0 \/ personal_details[p].username # auth_user[user].username)
               => personal_details'[p] = personal_details[p]

C10_ShowsOwnRows(user) ==
    \E p \in DOMAIN personal_details :
        /\ personal_details[p].username = auth_user[user].username
        /\ response'.context =
               {<<"personal_details", p>>,
                <<"job_details", personal_details[p].job_details>>,
                <<"performance",
                  job_details[personal_details[p].job_details].performance>>}

\* C10: whatever the id path parameter of the request, a step answered by
\* update_profile changes no Account and no Personal Details row but the
\* caller's own and no Job Details or Performance row at all, and a step
\* answered by get_profile_data shows the caller's own Personal Details, Job
\* Details and Performance, nothing else, and changes no row.
C10_ProfileActsOnCallerOnly ==
    [][/\ response'.handler = "update_profile" => C10_OnlyOwnRows(RequestUser)
       /\ (response'.handler = "get_profile_data" /\ RequestUser # 0)
              => (C10_ShowsOwnRows(RequestUser) /\ UNCHANGED store)]_vars

\* bob has saved his profile through the path of id 1, ann's row.
C10_Witness ==
    /\ response = Render("update_profile", "main/edit-profile.html", {<<"id", 1>>})
    /\ messages = <<ProfileUpdatedMsg>>
    /\ session.user_id = 2
    /\ 2 \in DOMAIN auth_user /\ auth_user[2].email = "b@x.org"
    /\ personal_details[2].first_name = Str_Bo
    /\ 1 \in DOMAIN personal_details /\ personal_details[1] = SeedPersonal[1]

(* ---- C5 ---- *)
\* update_profile has saved a form that carries a new password.
C5_PasswordSaved(id, form) ==
    /\ form.new_password # ""
    /\ messages' = <<ProfileUpdatedMsg>>
    /\ response'.handler = "update_profile"
    /\ update_profile("POST", id, form)

C5_NewPasswordWorks(user, form) ==
    /\ AuthenticateIn(auth_user', form.username, form.new_password) = user
    /\ RequestUser' = user

\* C5 as stated: after a successful update_profile POST that supplies a new
\* password, no password that authenticated the caller before authenticates
\* them any more, the new password authenticates under the submitted
\* username, and the requesting session is still authenticated.
C5_OldPasswordNeverAuthenticates ==
    [][\A id \in PathIds, form \in EditProfileForms :
          C5_PasswordSaved(id, form) =>
              LET user == RequestUser
              IN  /\ \A raw \in Passwords :
                         check_password(raw, auth_user[user].password)
                             => AuthenticateIn(auth_user', form.username, raw) = 0
                  /\ C5_NewPasswordWorks(user, form)]_vars

\* C5 amended: as above, the old password failing when the new password
\* differs from it.
C5_PasswordChangeKeepsSession ==
    [][\A id \in PathIds, form \in EditProfileForms :
          C5_PasswordSaved(id, form) =>
              LET user == RequestUser
              IN  /\ \A raw \in Passwords \ {form.new_password} :
                         check_password(raw, auth_user[user].password)
                             => AuthenticateIn(auth_user', form.username, raw) = 0
                  /\ C5_NewPasswordWorks(user, form)]_vars

\* ann has replaced her password pw1 by pw2 and is still logged in.
C5_Witness ==
    /\ response.handler = "update_profile"
    /\ messages = <<ProfileUpdatedMsg>>
    /\ session.user_id = 1 /\ RequestUser = 1
    /\ auth_user[1].password = make_password("pw2")

(* ---- C2 ---- *)
C2_RowsGone(d) ==
    /\ d.account \notin DOMAIN auth_user
    /\ d.personal \notin DOMAIN personal_details
    /\ d.emp_id \notin DOMAIN job_details
    /\ d.performance \notin DOMAIN performance
    /\ PersonalOfEmployee(d.emp_id) = {}

\* C2 as stated: once a POST delete_employee has deleted an employee, the
\* employee's four rows are absent and every later lookup by the employee's
\* id or username finds nothing.
C2_DeletedNeverFound ==
    \A d \in deleted : C2_RowsGone(d) /\ ~UsernameInUse(d.username)

\* C2 amended: the four rows are absent and the lookup by id fails from the
\* delete on; the lookup by username fails right after the delete and keeps
\* failing until a user_register or update_profile gives the username to
\* another account.
C2_DeleteRemovesEmployee ==
    [][/\ \A d \in deleted' : C2_RowsGone(d)'
       /\ \A d \in deleted' \ deleted : ~UsernameInUse(d.username)'
       /\ \A d \in deleted :
              (~UsernameInUse(d.username) /\ UsernameInUse(d.username)')
                  => response'.handler \in {"user_register", "update_profile"}]_vars

\* bob has been deleted by a POST delete_employee.
C2_Witness ==
    /\ response = Redirect("delete_employee", "/list/")
    /\ messages = <<Msg("success", "Employee deleted successfully.")>>
    /\ \E d \in deleted : d.username = "bob" /\ d.emp_id = 1

(* ---- C1 ---- *)
\* The employee of id e exists and is an administrator.
C1_AdminTarget(e) ==
    /\ e \in DOMAIN job_details
    /\ job_details[e].role = "ADM"
    /\ PersonalOfEmployee(e) # {}

\* update_employee or delete_employee, with any method, on employee e.
C1_Request(e) ==
    \E m \in Methods :
        \/ delete_employee(m, e)
        \/ \E form \in EditEmployeeForms : update_employee(m, e, form)

C1_Refused ==
    /\ UNCHANGED <<auth_user, personal_details, job_details, performance>>
    /\ \E i \in 1..Len(messages') : messages'[i].level = "error"
    /\ response'.kind = "redirect"
    /\ response'.target = "/list/"

\* C1 as stated: update_employee and delete_employee, with any method, on an
\* administrator by a caller whose own role is not ADM change no row, add an
\* error message and answer with a redirect to the employee list.
C1_NonAdminRefused ==
    [][\A e \in Ids :
          (/\ response'.handler \in {"update_employee", "delete_employee"}
           /\ RequestUser # 0
           /\ RoleOf(RequestUser) # "ADM"
           /\ C1_AdminTarget(e)
           /\ C1_Request(e)) => C1_Refused]_vars

\* C1 amended: the same for a caller the manager guard lets through, that
\* is a manager whose own role is not ADM.
C1_NonAdminManagerRefused ==
    [][\A e \in Ids :
          (/\ response'.handler \in {"update_employee", "delete_employee"}
           /\ RequestUser # 0
           /\ RoleOf(RequestUser) # "ADM"
           /\ RoleOf(RequestUser) \in ManagerRoles
           /\ C1_AdminTarget(e)
           /\ C1_Request(e)) => C1_Refused]_vars

\* bob, a manager, has been refused the delete of ann, the administrator.
C1_Witness ==
    /\ response = Redirect("delete_employee", "/list/")
    /\ messages = <<Msg("error", "You cannot delete an Admin employee.")>>
    /\ RequestUser = 2 /\ RoleOf(2) = "MGR"
    /\ job_details[2] = SeedJobs[2] /\ personal_details[1] = SeedPersonal[1]

(* ---- C9 ---- *)
C9_Permitted(e, form) ==
    /\ RequestUser # 0
    /\ RoleOf(RequestUser) \in ManagerRoles
    /\ e \in DOMAIN job_details
    /\ PersonalOfEmployee(e) # {}
    /\ (job_details[e].role # "ADM" \/ RoleOf(RequestUser) = "ADM")
    /\ form.role \in RoleChoices
    /\ form.department \in DepartmentChoices

C9_Saved(e, form) ==
    LET f == job_details[e].performance
    IN  /\ DOMAIN job_details' = DOMAIN job_details
        /\ job_details'[e] = [role |-> form.role, department |-> form.department,
                              performance |-> f]
        /\ \A j \in DOMAIN job_details \ {e} : job_details'[j] = job_details[j]
        /\ DOMAIN performance' = DOMAIN performance
        /\ performance'[f] = [review_date |-> form.review_date,
                              rating |-> form.rating, comments |-> form.comments]
        /\ \A g \in DOMAIN performance \ {f} : performance'[g] = performance[g]
        /\ auth_user' = auth_user
        /\ personal_details' = personal_details
        /\ response'.kind = "redirect" /\ response'.target = "/list/"
        /\ \E i \in 1..Len(messages') : messages'[i].level = "success"

\* C9: a valid, permitted update_employee POST on employee e writes the
\* form's values to the Job Details row e and to the review date, rating and
\* comments of the Performance row it links, changes no other Job Details
\* or Performance row, no Account and no Personal Details row, and answers
\* with a redirect to the list and a success message.
C9_EditChangesOneEmployee ==
    [][\A e \in Ids, form \in EditEmployeeForms :
          (/\ response'.handler = "update_employee"
           /\ C9_Permitted(e, form)
           /\ update_employee("POST", e, form)) => C9_Saved(e, form)]_vars

\* bob has been edited with the administrator's form.
C9_Witness ==
    /\ response = Redirect("update_employee", "/list/")
    /\ messages = <<Msg("success", "Profile updated successfully!")>>
    /\ 1 \in DOMAIN job_details /\ job_details[1].role = "ADM"
    /\ performance[2].rating = Some(5)
    /\ job_details[2] = SeedJobs[2]

(* ---- C4, C7 ---- *)
\* The Personal Details rows the list page of the last response shows.
Listed == {c[2] : c \in {x \in response.context : x[1] = "employee"}}

JobOf(p) == job_details[personal_details[p].job_details]

\* needle occurs in hay, letters compared without their case.
OccursIgnoringCase(hay, needle) ==
    \E i \in 0..(Len(hay) - Len(needle)) :
        \A k \in 1..Len(needle) : LowerChar(hay[i + k]) = LowerChar(needle[k])

MatchesSearch(p, q) ==
    \/ OccursIgnoringCase(personal_details[p].first_name, q)
    \/ OccursIgnoringCase(personal_details[p].last_name, q)
    \/ OccursIgnoringCase(JobOf(p).department, q)

\* employees_list(q) is served to a manager.
ListServed(q) ==
    /\ response'.handler = "employees_list"
    /\ RequestUser # 0
    /\ RoleOf(RequestUser) \in ManagerRoles
    /\ employees_list(q)

\* C4 as stated: for every search query, the list of a caller whose role is
\* not ADM holds no administrator, and the list of a caller whose role is
\* ADM holds every administrator.
C4_AdminsListedForAdminsOnly ==
    [][\A q \in Queries :
          ListServed(q) =>
              /\ RoleOf(RequestUser) # "ADM"
                     => \A p \in Listed' : JobOf(p).role # "ADM"
              /\ RoleOf(RequestUser) = "ADM"
                     => \A p \in DOMAIN personal_details :
                            JobOf(p).role = "ADM" => p \in Listed']_vars

\* C4 amended: the list of a caller whose role is ADM holds every
\* administrator the search query matches (every one when there is no query).
C4_AdminsHiddenFromOthers ==
    [][\A q \in Queries :
          ListServed(q) =>
              /\ RoleOf(RequestUser) # "ADM"
                     => \A p \in Listed' : JobOf(p).role # "ADM"
              /\ RoleOf(RequestUser) = "ADM"
                     => \A p \in DOMAIN personal_details :
                            (JobOf(p).role = "ADM" /\ MatchesSearch(p, q))
                                => p \in Listed']_vars

\* bob, a manager, has been shown a list while ann is an administrator.
C4_Witness ==
    /\ response.handler = "employees_list" /\ response.kind = "render"
    /\ RequestUser = 2 /\ RoleOf(2) = "MGR"
    /\ 2 \in DOMAIN job_details /\ job_details[2].role = "ADM"
    /\ 2 \in Listed /\ 1 \notin Listed

\* C7 as stated: a search returns every employee whose first name, last
\* name or department holds the query, letters compared without case, and
\* returns nothing when no employee's does.
C7_SearchReturnsEveryMatch ==
    [][\A q \in Queries \ {EmptyStr} :
          ListServed(q) =>
              /\ \A p \in DOMAIN personal_details :
                     MatchesSearch(p, q) => p \in Listed'
              /\ (\A p \in DOMAIN personal_details : ~MatchesSearch(p, q))
                     => Listed' = {}]_vars

\* C7 amended: a search returns every such employee the caller may see (any
\* employee for an administrator, the employees whose role is not ADM for
\* the others).
C7_SearchReturnsVisibleMatches ==
    [][\A q \in Queries \ {EmptyStr} :
          ListServed(q) =>
              /\ \A p \in DOMAIN personal_details :
                     (/\ MatchesSearch(p, q)
                      /\ (RoleOf(RequestUser) = "ADM" \/ JobOf(p).role # "ADM"))
                         => p \in Listed'
              /\ (\A p \in DOMAIN personal_details : ~MatchesSearch(p, q))
                     => Listed' = {}]_vars

\* ann's search has returned bob, of department HR, and not ann herself.
C7_Witness ==
    /\ response.handler = "employees_list" /\ response.kind = "render"
    /\ RequestUser = 1 /\ RoleOf(1) = "ADM"
    /\ Listed = {2}
    /\ 1 \in DOMAIN personal_details
    /\ JobOf(2).department = Str_HR /\ JobOf(1).department = Str_IT

(* ---- C8 ---- *)
\* C8: while every request is bob's, who starts as a manager and no
\* administrator, the rows of every administrator of the initial store stay
\* as they were: none is updated, none deleted.
C8_AdminsUntouchedByManager ==
    \A p \in DOMAIN SeedPersonal :
        LET e == SeedPersonal[p].job_details
            f == SeedJobs[e].performance
        IN  SeedJobs[e].role = "ADM" =>
                /\ p \in DOMAIN personal_details
                /\ personal_details[p] = SeedPersonal[p]
                /\ e \in DOMAIN job_details /\ job_details[e] = SeedJobs[e]
                /\ f \in DOMAIN performance /\ performance[f] = SeedPerformance[f]
                /\ \E u \in DOMAIN auth_user :
                       u \in DOMAIN SeedUsers /\ auth_user[u] = SeedUsers[u]
                           /\ auth_user[u].username = SeedPersonal[p].username

====
